---- MODULE Spec2Model ----
(***************************************************************************)
(* Model of the specials-extraction engine of DiningBot                    *)
(* (src/diningbot/extraction.py with the rule tables of                    *)
(* src/diningbot/helpers/repeats.py) and of the concurrent fetch that      *)
(* feeds it (src/diningbot/fetch_menu.py).                                 *)
(*                                                                         *)
(* Python strings are modelled as sequences of one-character strings, so   *)
(* that norm() (strip, lower, split, join) is computed and not assumed.    *)
(* Optional[str] uses the sentinel None; Optional[Period] and              *)
(* Optional[Category] are sequences of length 0 (None) or 1.               *)
(***************************************************************************)
EXTENDS Integers, Sequences, FiniteSets, TLC

VARIABLES periods, out, status, arg, ret, called

\* The state of a call of fetch_daily_menu (src/diningbot/fetch_menu.py): the
\* position of the calling thread, the exception it ends with, and its
\* locals.
VARIABLES pc, exc, period_ids, futures, parsed_periods, ordered_periods

fetchVars == <<pc, exc, period_ids, futures, parsed_periods, ordered_periods>>

vars == <<periods, out, status, arg, ret, called, fetchVars>>

\* No call of fetch_daily_menu is under way.
NoFetch ==
    /\ pc = "none"
    /\ exc = "none"
    /\ period_ids = <<>>
    /\ futures = <<>>
    /\ parsed_periods = <<>>
    /\ ordered_periods = <<>>

----------------------------------------------------------------------------
(* Text primitives *)

\* Python's None where a str is expected; "None" is not a character, so the
\* sentinel differs from every text.
None == <<"None">>

\* The ASCII letters str.lower() changes.
ToLower ==
    [A |-> "a", B |-> "b", C |-> "c", D |-> "d", E |-> "e", F |-> "f", G |-> "g",
     H |-> "h", I |-> "i", J |-> "j", K |-> "k", L |-> "l", M |-> "m", N |-> "n",
     O |-> "o", P |-> "p", Q |-> "q", R |-> "r", S |-> "s", T |-> "t", U |-> "u",
     V |-> "v", W |-> "w", X |-> "x", Y |-> "y", Z |-> "z"]

IsSpace(c) == c \in {" ", "\t", "\n", "\r", "\f"}

\* str.swapcase() on one character, in place of str.lower().
LowerCharSwapsCase(c) ==
    IF c \in DOMAIN ToLower THEN ToLower[c]
    ELSE IF \E k \in DOMAIN ToLower : ToLower[k] = c
         THEN CHOOSE k \in DOMAIN ToLower : ToLower[k] = c
         ELSE c

LowerChar(c) == IF c \in DOMAIN ToLower THEN ToLower[c] ELSE c

\* str.lower()
Lower(s) == [i \in DOMAIN s |-> LowerChar(s[i])]

\* The index of the first non-whitespace character of s from i on, or Len(s) + 1.
RECURSIVE FirstNonSpace(_, _)
FirstNonSpace(s, i) ==
    IF i <= Len(s) /\ IsSpace(s[i]) THEN FirstNonSpace(s, i + 1) ELSE i

\* The index of the last non-whitespace character of s up to j, or 0.
RECURSIVE LastNonSpace(_, _)
LastNonSpace(s, j) ==
    IF j >= 1 /\ IsSpace(s[j]) THEN LastNonSpace(s, j - 1) ELSE j

\* str.strip()
Strip(s) == SubSeq(s, FirstNonSpace(s, 1), LastNonSpace(s, Len(s)))

\* str.split() with no separator: the maximal runs of non-whitespace.
\* i: the next character to read; start: where the word being read began,
\* 0 when between words.
RECURSIVE SplitFrom(_, _, _, _)
SplitFrom(s, i, start, words) ==
    IF i > Len(s)
    THEN IF start = 0 THEN words ELSE Append(words, SubSeq(s, start, Len(s)))
    ELSE IF IsSpace(s[i])
         THEN SplitFrom(s, i + 1, 0,
                        IF start = 0 THEN words ELSE Append(words, SubSeq(s, start, i - 1)))
         ELSE SplitFrom(s, i + 1, IF start = 0 THEN i ELSE start, words)

Split(s) == SplitFrom(s, 1, 0, <<>>)

\* " ".join(words)
RECURSIVE Join(_)
Join(words) ==
    IF words = <<>> THEN <<>>
    ELSE IF Len(words) = 1 THEN Head(words)
    ELSE Head(words) \o <<" ">> \o Join(Tail(words))

\* Mutant of OrEmpty: a missing text is not replaced by the empty one.
OrEmptyKeepsNone(text) == text

\* text or ""
OrEmpty(text) == IF text = None THEN <<>> ELSE text

norm(text) == Join(Split(Lower(Strip(OrEmpty(text)))))

----------------------------------------------------------------------------
(* Rule tables *)

RISE_AND_DINE ==
    { norm(<<"F","r","e","s","h"," ","C","o","o","k","e","d"," ","E","g","g","s">>),
      norm(<<"S","c","r","a","m","b","l","e","d"," ","E","g","g","s">>),
      norm(<<"B","l","u","e","b","e","r","r","y"," ","D","a","n","i","s","h">>),
      norm(<<"C","h","o","c","o","l","a","t","e"," ","C","h","i","p"," ","B","u","t","t","e","r","m","i","l","k"," ","M","u","f","f","i","n","s">>),
      norm(<<"S","c","o","n","e","s">>),
      norm(<<"P","l","a","n","t"," ","B","a","s","e","d"," ","S","a","u","s","a","g","e"," ","P","a","t","t","y">>),
      norm(<<"T","e","a"," ","B","i","s","c","u","i","t","s">>),
      norm(<<"O","a","t","m","e","a","l">>),
      norm(<<"C","o","n","g","e","e">>),
      norm(<<"M","a","p","l","e"," ","S","y","r","u","p">>) }

STACKS ==
    { norm(<<"S","i","d","e"," ","o","f"," ","S","l","i","c","e","d"," ","T","o","m","a","t","o">>),
      norm(<<"L","e","a","f"," ","L","e","t","t","u","c","e">>),
      norm(<<"S","l","i","c","e","d"," ","R","e","d"," ","O","n","i","o","n","s">>),
      norm(<<"S","l","i","c","e","d"," ","F","r","e","s","h"," ","C","u","c","u","m","b","e","r","s">>),
      norm(<<"S","m","o","k","e","d"," ","D","e","l","i"," ","H","a","m">>),
      norm(<<"D","e","l","i"," ","R","o","a","s","t"," ","B","e","e","f">>),
      norm(<<"S","l","i","c","e","d"," ","D","e","l","i"," ","T","u","r","k","e","y">>),
      norm(<<"E","g","g"," ","S","a","l","a","d"," ","F","i","l","l","i","n","g"," ","n","o"," ","O","n","i","o","n">>),
      norm(<<"T","u","n","a"," ","S","a","l","a","d"," ","F","i","l","l","i","n","g">>),
      norm(<<"L","i","g","h","t"," ","T","y","p","e"," ","M","a","y","o","n","n","a","i","s","e">>),
      norm(<<"M","u","s","t","a","r","d">>),
      norm(<<"C","h","i","p","o","t","l","e"," ","A","i","o","l","i">>),
      norm(<<"H","u","m","m","u","s">>),
      norm(<<"C","h","a","o"," ","C","h","e","e","s","e">>),
      norm(<<"M","o","z","z","a","r","e","l","l","a"," ","C","h","e","e","s","e"," ","S","l","i","c","e","s">>),
      norm(<<"C","h","e","d","d","a","r"," ","C","h","e","e","s","e"," ","S","l","i","c","e","s",","," ","M","i","l","d">>),
      norm(<<"S","l","i","c","e","d"," ","W","h","i","t","e"," ","B","r","e","a","d">>),
      norm(<<"H","o","m","e","m","a","d","e"," ","W","h","o","l","e"," ","W","h","e","a","t"," ","B","r","e","a","d">>),
      norm(<<"F","l","o","u","r"," ","T","o","r","t","i","l","l","a"," ","W","r","a","p",","," ","1","0","\"">>),
      norm(<<"S","o","u","r","d","o","u","g","h"," ","B","r","e","a","d",","," ","P","r","e","-","S","l","i","c","e","d">>) }

LEAF_MARKET ==
    { norm(<<"D","e","l","u","x","e"," ","F","r","u","i","t"," ","S","a","l","a","d">>),
      norm(<<"C","h","o","p","p","e","d"," ","R","o","m","a","i","n","e">>),
      norm(<<"D","i","c","e","d"," ","T","o","m","a","t","o","e","s">>),
      norm(<<"S","l","i","c","e","d"," ","F","r","e","s","h"," ","C","u","c","u","m","b","e","r","s">>),
      norm(<<"B","a","b","y"," ","C","a","r","r","o","t","s">>),
      norm(<<"D","i","c","e","d"," ","F","r","e","s","h"," ","C","e","l","e","r","y">>),
      norm(<<"C","h","o","p","p","e","d"," ","B","r","o","c","c","o","l","i">>),
      norm(<<"F","r","e","s","h"," ","C","h","o","p","p","e","d"," ","C","a","u","l","i","f","l","o","w","e","r">>),
      norm(<<"S","l","i","c","e","d"," ","B","e","e","t","s">>),
      norm(<<"C","h","o","p","p","e","d"," ","H","a","r","d"," ","C","o","o","k","e","d"," ","E","g","g">>),
      norm(<<"1","%"," ","C","o","t","t","a","g","e"," ","C","h","e","e","s","e">>),
      norm(<<"S","l","i","c","e","d"," ","R","e","d"," ","O","n","i","o","n","s">>),
      norm(<<"B","l","a","c","k"," ","B","e","a","n","s">>),
      norm(<<"S","e","a","s","o","n","e","d"," ","C","r","o","u","t","o","n","s">>),
      norm(<<"S","l","i","c","e","d"," ","B","l","a","c","k"," ","O","l","i","v","e","s">>),
      norm(<<"B","a","b","y"," ","S","p","i","n","a","c","h">>),
      norm(<<"S","a","l","t","e","d"," ","S","u","n","f","l","o","w","e","r"," ","S","e","e","d","s">>),
      norm(<<"C","h","i","c","k","p","e","a","s">>),
      norm(<<"S","p","r","i","n","g"," ","M","i","x"," ","L","e","t","t","u","c","e">>),
      norm(<<"C","a","e","s","a","r"," ","S","a","l","a","d"," ","D","r","e","s","s","i","n","g">>),
      norm(<<"C","W"," ","R","a","n","c","h"," ","S","a","l","a","d"," ","D","r","e","s","s","i","n","g">>),
      norm(<<"B","a","l","s","a","m","i","c"," ","S","a","l","a","d"," ","D","r","e","s","s","i","n","g">>) }

GRILL_HOUSE ==
    { norm(<<"L","e","a","f"," ","L","e","t","t","u","c","e">>),
      norm(<<"S","i","d","e"," ","o","f"," ","S","l","i","c","e","d"," ","T","o","m","a","t","o">>),
      norm(<<"C","u","c","u","m","b","e","r"," ","P","i","c","k","l","e","s">>),
      norm(<<"S","h","a","v","e","d"," ","F","r","e","s","h"," ","R","e","d"," ","O","n","i","o","n","s">>),
      norm(<<"B","B","Q"," ","S","a","u","c","e">>),
      norm(<<"S","r","i","r","a","c","h","a"," ","M","a","y","o","n","n","a","i","s","e">>),
      norm(<<"P","e","s","t","o"," ","A","i","o","l","i">>),
      norm(<<"S","i","g","n","a","t","u","r","e"," ","B","u","r","g","e","r"," ","S","a","u","c","e">>),
      norm(<<"K","i","m","c","h","i","-","S","t","y","l","e"," ","C","o","l","e","s","l","a","w">>) }

TEPPAN_SIGNATURE ==
    { norm(<<"j","a","s","m","i","n","e"," ","r","i","c","e">>),
      norm(<<"c","a","n","t","o","n","e","s","e"," ","s","t","y","l","e"," ","c","h","o","w"," ","m","e","i","n"," ","n","o","o","d","l","e","s">>) }

FRENCH_TOAST_SIGNATURE ==
    { norm(<<"f","r","e","n","c","h"," ","t","o","a","s","t">>) }

PANCAKE_SIGNATURE ==
    { norm(<<"p","a","n","c","a","k","e","s">>),
      norm(<<"p","a","n","c","a","k","e">>) }

RICE_BOWL_SIGNATURE ==
    { norm(<<"b","b","q"," ","c","h","i","c","k","e","n">>),
      norm(<<"c","h","i","l","i"," ","c","o","n"," ","c","a","r","n","e">>) }

MEZZE_BAR_SIGNATURE ==
    { norm(<<"t","z","a","t","z","i","k","i">>),
      norm(<<"h","u","m","m","u","s">>) }

RAMEN_BAR_SIGNATURE ==
    { norm(<<"r","a","m","e","n"," ","n","o","o","d","l","e","s">>),
      norm(<<"u","d","o","n"," ","n","o","o","d","l","e","s">>) }

CURRY_BAR_SIGNATURE ==
    { norm(<<"r","i","c","e"," ","p","i","l","a","f">>),
      norm(<<"g","r","e","e","n"," ","c","u","r","r","y"," ","b","a","s","e">>),
      norm(<<"i","n","d","o","n","e","s","i","a","n"," ","b","e","e","f"," ","c","u","r","r","y">>),
      norm(<<"r","a","j","m","a"," ","c","u","r","r","y">>) }

PASTA_BAR_SIGNATURE ==
    { norm(<<"g","a","r","l","i","c"," ","c","r","e","a","m"," ","c","h","e","e","s","e"," ","s","a","u","c","e">>),
      norm(<<"s","u","n","-","d","r","i","e","d"," ","t","o","m","a","t","o"," ","s","a","u","c","e">>) }

\* Imported by extraction.py from diningbot.repeated_values, a module that is
\* not among the sources; helpers/repeats.py, its counterpart, has no such
\* table.  Modelled as one signature that belongs to no other table.
SHAWARMA_SIGNATURE ==
    { norm(<<"c","h","i","c","k","e","n"," ","s","h","a","w","a","r","m","a">>) }

----------------------------------------------------------------------------
(* String literals of extraction.py *)

RiseAndDine == <<"r","i","s","e"," ","a","n","d"," ","d","i","n","e">>
TheStacks   == <<"t","h","e"," ","s","t","a","c","k","s">>
LeafMarket  == <<"l","e","a","f"," ","m","a","r","k","e","t">>
GrillHouse  == <<"g","r","i","l","l"," ","h","o","u","s","e">>
Breakfast   == <<"b","r","e","a","k","f","a","s","t">>

TYPE3 ==
    { <<"t","h","e"," ","h","o","t"," ","p","l","a","t","e"," ","(","t","e","p","p","a","n","y","a","k","i",")">>,
      <<"t","h","e"," ","h","o","t"," ","p","l","a","t","e">>,
      <<"f","r","e","s","h"," ","b","o","w","l">>,
      <<"c","r","e","a","t","e">> }

TYPE2 == { RiseAndDine, TheStacks, LeafMarket, GrillHouse }

TeppenyakiStation == <<"T","e","p","p","e","n","y","a","k","i"," ","S","t","a","t","i","o","n">>
ShawarmaStation   == <<"S","h","a","w","a","r","m","a"," ","S","t","a","t","i","o","n">>
FrenchToastBar    == <<"F","r","e","n","c","h"," ","T","o","a","s","t"," ","B","a","r">>
PancakesBar       == <<"P","a","n","c","a","k","e","s"," ","B","a","r">>
RiceBowlBar       == <<"R","i","c","e"," ","B","o","w","l"," ","B","a","r">>
MezzeBar          == <<"M","e","z","z","e"," ","B","a","r">>
RamenStation      == <<"R","a","m","e","n"," ","S","t","a","t","i","o","n">>
CurryStation      == <<"C","u","r","r","y"," ","S","t","a","t","i","o","n">>
PastaStation      == <<"P","a","s","t","a"," ","S","t","a","t","i","o","n">>

----------------------------------------------------------------------------
(* Data model: the dataclasses of fetch_helper.py *)

MenuItem(name, description) == [name |-> name, description |-> description]

Category(id, name, items) == [id |-> id, name |-> name, items |-> items]

Period(id, name, sort_order, categories) ==
    [id |-> id, name |-> name, sort_order |-> sort_order, categories |-> categories]

----------------------------------------------------------------------------
(* The three station handlers *)

\* Mutant of _handle_type1_unique: the items that are staples of a hybrid
\* station are filtered out.
UniqueDropsStaples(cat) ==
    Category(cat.id, cat.name,
             SelectSeq(cat.items,
                       LAMBDA item : norm(item.name) \notin
                           RISE_AND_DINE \cup STACKS \cup LEAF_MARKET \cup GRILL_HOUSE))

_handle_type1_unique(cat) == cat

\* Mutant of IsStationRepeat: a staple of any station is dropped at every station.
IsStationRepeatAnyTable(cname, n) ==
    n \in RISE_AND_DINE \cup STACKS \cup LEAF_MARKET \cup GRILL_HOUSE

\* The four station tests of the hybrid loop: n is a staple of station cname.
IsStationRepeat(cname, n) ==
    \/ cname = RiseAndDine /\ n \in RISE_AND_DINE
    \/ cname = TheStacks /\ n \in STACKS
    \/ cname = LeafMarket /\ n \in LEAF_MARKET
    \/ cname = GrillHouse /\ n \in GRILL_HOUSE

\* Mutant of HybridLoop: a kept item is put at the front of the list.
RECURSIVE HybridLoopPrepends(_, _, _, _)
HybridLoopPrepends(cname, items, seen, filtered_items) ==
    IF items = <<>> THEN filtered_items
    ELSE LET item == Head(items)
             n == norm(item.name)
         IN  IF n \in seen
             THEN HybridLoopPrepends(cname, Tail(items), seen, filtered_items)
             ELSE IF IsStationRepeat(cname, n)
                  THEN HybridLoopPrepends(cname, Tail(items), seen \cup {n}, filtered_items)
                  ELSE HybridLoopPrepends(cname, Tail(items), seen \cup {n},
                                          <<item>> \o filtered_items)

\* Mutant of HybridLoop: no test of seen, a repeated name is kept each time.
RECURSIVE HybridLoopKeepsDuplicates(_, _, _, _)
HybridLoopKeepsDuplicates(cname, items, seen, filtered_items) ==
    IF items = <<>> THEN filtered_items
    ELSE LET item == Head(items)
             n == norm(item.name)
         IN  IF IsStationRepeat(cname, n)
             THEN HybridLoopKeepsDuplicates(cname, Tail(items), seen, filtered_items)
             ELSE HybridLoopKeepsDuplicates(cname, Tail(items), seen,
                                            Append(filtered_items, item))

\* The for loop of _handle_type2_hybrid over the items still to visit.
RECURSIVE HybridLoop(_, _, _, _)
HybridLoop(cname, items, seen, filtered_items) ==
    IF items = <<>> THEN filtered_items
    ELSE LET item == Head(items)
             n == norm(item.name)
         IN  IF n \in seen
             THEN HybridLoop(cname, Tail(items), seen, filtered_items)
             ELSE IF IsStationRepeat(cname, n)
                  THEN HybridLoop(cname, Tail(items), seen \cup {n}, filtered_items)
                  ELSE HybridLoop(cname, Tail(items), seen \cup {n},
                                  Append(filtered_items, item))

\* Mutant of _handle_type2_hybrid: no test of the filtered list, a category
\* is returned also when nothing is left.
HybridNeverNone(cat) ==
    << Category(cat.id, cat.name, HybridLoop(norm(cat.name), cat.items, {}, <<>>)) >>

\* Optional[Category]: <<>> is None.
_handle_type2_hybrid(cat) ==
    LET filtered_items == HybridLoop(norm(cat.name), cat.items, {}, <<>>)
    IN  IF filtered_items = <<>>
        THEN <<>>
        ELSE << Category(cat.id, cat.name, filtered_items) >>

\* Mutant of FirstThree: the first four names.
FirstThreeTakesFour(names) == SubSeq(names, 1, IF Len(names) < 4 THEN Len(names) ELSE 4)

\* names[:3]
FirstThree(names) == SubSeq(names, 1, IF Len(names) < 3 THEN Len(names) ELSE 3)

\* any(sig in names for sig in SIGNATURE)
AnySigIn(signature, names) ==
    \E sig \in signature : \E i \in DOMAIN names : names[i] = sig

\* Mutant of MorphFallback: the normalized station name is the fallback.
MorphFallbackNormalized(cat) == norm(cat.name)

\* station = cat.name  # fallback
MorphFallback(cat) == cat.name

\* Mutant of MorphStation: the Create tables are tried before the Fresh Bowl
\* and Hot Plate ones.
MorphStationCreateFirst(cat) ==
    LET names == [i \in DOMAIN cat.items |-> norm(cat.items[i].name)]
    IN  IF AnySigIn(RAMEN_BAR_SIGNATURE, FirstThree(names)) THEN RamenStation
        ELSE IF AnySigIn(CURRY_BAR_SIGNATURE, FirstThree(names)) THEN CurryStation
        ELSE IF AnySigIn(PASTA_BAR_SIGNATURE, names) THEN PastaStation
        ELSE IF AnySigIn(RICE_BOWL_SIGNATURE, FirstThree(names)) THEN RiceBowlBar
        ELSE IF AnySigIn(MEZZE_BAR_SIGNATURE, FirstThree(names)) THEN MezzeBar
        ELSE IF AnySigIn(TEPPAN_SIGNATURE, FirstThree(names)) THEN TeppenyakiStation
        ELSE IF AnySigIn(SHAWARMA_SIGNATURE, FirstThree(names)) THEN ShawarmaStation
        ELSE IF AnySigIn(FRENCH_TOAST_SIGNATURE, FirstThree(names)) THEN FrenchToastBar
        ELSE IF AnySigIn(PANCAKE_SIGNATURE, FirstThree(names)) THEN PancakesBar
        ELSE MorphFallback(cat)

\* Mutant of MorphStation: a station is tested against the tables of its own
\* name only (the source groups them as HOT PLATE, FRESH BOWL, CREATE).
MorphStationOwnTablesOnly(cat) ==
    LET names == [i \in DOMAIN cat.items |-> norm(cat.items[i].name)]
        cname == norm(cat.name)
        bowl == cname = <<"f","r","e","s","h"," ","b","o","w","l">>
        create == cname = <<"c","r","e","a","t","e">>
        hot == cname \in TYPE3 /\ ~bowl /\ ~create
    IN  IF hot /\ AnySigIn(TEPPAN_SIGNATURE, FirstThree(names)) THEN TeppenyakiStation
        ELSE IF hot /\ AnySigIn(SHAWARMA_SIGNATURE, FirstThree(names)) THEN ShawarmaStation
        ELSE IF hot /\ AnySigIn(FRENCH_TOAST_SIGNATURE, FirstThree(names)) THEN FrenchToastBar
        ELSE IF hot /\ AnySigIn(PANCAKE_SIGNATURE, FirstThree(names)) THEN PancakesBar
        ELSE IF bowl /\ AnySigIn(RICE_BOWL_SIGNATURE, FirstThree(names)) THEN RiceBowlBar
        ELSE IF bowl /\ AnySigIn(MEZZE_BAR_SIGNATURE, FirstThree(names)) THEN MezzeBar
        ELSE IF create /\ AnySigIn(RAMEN_BAR_SIGNATURE, FirstThree(names)) THEN RamenStation
        ELSE IF create /\ AnySigIn(CURRY_BAR_SIGNATURE, FirstThree(names)) THEN CurryStation
        ELSE IF create /\ AnySigIn(PASTA_BAR_SIGNATURE, names) THEN PastaStation
        ELSE MorphFallback(cat)

\* The if/elif chain of _handle_type3_morph.
MorphStation(cat) ==
    LET names == [i \in DOMAIN cat.items |-> norm(cat.items[i].name)]
    IN  IF AnySigIn(TEPPAN_SIGNATURE, FirstThree(names)) THEN TeppenyakiStation
        ELSE IF AnySigIn(SHAWARMA_SIGNATURE, FirstThree(names)) THEN ShawarmaStation
        ELSE IF AnySigIn(FRENCH_TOAST_SIGNATURE, FirstThree(names)) THEN FrenchToastBar
        ELSE IF AnySigIn(PANCAKE_SIGNATURE, FirstThree(names)) THEN PancakesBar
        ELSE IF AnySigIn(RICE_BOWL_SIGNATURE, FirstThree(names)) THEN RiceBowlBar
        ELSE IF AnySigIn(MEZZE_BAR_SIGNATURE, FirstThree(names)) THEN MezzeBar
        ELSE IF AnySigIn(RAMEN_BAR_SIGNATURE, FirstThree(names)) THEN RamenStation
        ELSE IF AnySigIn(CURRY_BAR_SIGNATURE, FirstThree(names)) THEN CurryStation
        ELSE IF AnySigIn(PASTA_BAR_SIGNATURE, names) THEN PastaStation
        ELSE MorphFallback(cat)

_handle_type3_morph(cat) == Category(cat.id, MorphStation(cat), <<>>)

----------------------------------------------------------------------------
(* extract_specials *)

\* Mutant of MorphBullet: the handler's own category is emitted (the label as
\* the station name, no item), as a variant of the extractor does.
MorphBulletIsHandlerResult(cat) == _handle_type3_morph(cat)

\* The category built for a Morph station: the station keeps its id and
\* name, the detected classification becomes its single bullet item.
MorphBullet(cat) ==
    LET morph == _handle_type3_morph(cat)
        classification == morph.name
    IN  Category(cat.id, cat.name, << MenuItem(classification, None) >>)

\* Mutant of StationKind: the display name is looked up as it is, without norm.
StationKindRawName(cat) ==
    IF cat.name \in TYPE3 THEN "Morph"
    ELSE IF cat.name \in TYPE2 THEN "Hybrid"
    ELSE "Unique"

\* Mutant of StationKind: no TYPE2 test, a Hybrid station is passed through.
StationKindNoHybrid(cat) ==
    IF norm(cat.name) \in TYPE3 THEN "Morph" ELSE "Unique"

\* The branch the category loop takes for a station: the TYPE3 test, then the
\* TYPE2 test, then the passthrough.
StationKind(cat) ==
    LET cname_norm == norm(cat.name)
    IN  IF cname_norm \in TYPE3 THEN "Morph"
        ELSE IF cname_norm \in TYPE2 THEN "Hybrid"
        ELSE "Unique"

\* The for loop over period.categories.  cat.items[0] raises IndexError on a
\* Morph station without items: the loop, and the call, end there.
RECURSIVE CategoryLoop(_, _, _)
CategoryLoop(cats, type1_and_type2, type3_list) ==
    IF cats = <<>>
    THEN [raised |-> FALSE, type1_and_type2 |-> type1_and_type2,
          type3_list |-> type3_list]
    ELSE LET cat == Head(cats)
             kind == StationKind(cat)
         IN  IF kind = "Morph"
             THEN IF cat.items = <<>>
                  THEN [raised |-> TRUE, type1_and_type2 |-> <<>>, type3_list |-> <<>>]
                  ELSE CategoryLoop(Tail(cats), type1_and_type2,
                                    Append(type3_list, MorphBullet(cat)))
             ELSE IF kind = "Hybrid"
                  THEN CategoryLoop(Tail(cats),
                                    type1_and_type2 \o _handle_type2_hybrid(cat),
                                    type3_list)
                  ELSE CategoryLoop(Tail(cats),
                                    Append(type1_and_type2, _handle_type1_unique(cat)),
                                    type3_list)

\* Mutant of MergeOrder: the Morph stations are put first.
MergeOrderMorphFirst(type1_and_type2, type3_list) == type3_list \o type1_and_type2

\* new_cats = type1_and_type2 + type3_list
MergeOrder(type1_and_type2, type3_list) == type1_and_type2 \o type3_list

\* Mutant of BreakfastFilter: the key is compared without lower().
BreakfastFilterCaseSensitive(period_key, new_cats) ==
    IF period_key = Breakfast
    THEN SelectSeq(new_cats, LAMBDA c : norm(c.name) = RiseAndDine)
    ELSE new_cats

\* BREAKFAST filter: only Rise & Dine
BreakfastFilter(period_key, new_cats) ==
    IF Lower(period_key) = Breakfast
    THEN SelectSeq(new_cats, LAMBDA c : norm(c.name) = RiseAndDine)
    ELSE new_cats

\* The body of the period loop for a present period.
ExtractPeriod(period_key, period) ==
    LET r == CategoryLoop(period.categories, <<>>, <<>>)
    IN  IF r.raised
        THEN [raised |-> TRUE, period |-> <<>>]
        ELSE [raised |-> FALSE,
              period |-> << Period(period.id, period.name, period.sort_order,
                                   BreakfastFilter(period_key,
                                       MergeOrder(r.type1_and_type2, r.type3_list))) >>]

\* out[period_key] = value on an insertion-ordered dict.
DictSet(d, key, value) ==
    IF \E i \in DOMAIN d : d[i].key = key
    THEN [i \in DOMAIN d |-> IF d[i].key = key THEN [key |-> key, period |-> value] ELSE d[i]]
    ELSE Append(d, [key |-> key, period |-> value])

\* Mutant of PeriodLoop: an absent period ends the loop (break for continue).
RECURSIVE PeriodLoopStopsAtAbsent(_, _)
PeriodLoopStopsAtAbsent(entries, acc) ==
    IF entries = <<>>
    THEN [raised |-> FALSE, out |-> acc]
    ELSE LET e == Head(entries)
         IN  IF e.period = <<>>
             THEN [raised |-> FALSE, out |-> acc]
             ELSE LET r == ExtractPeriod(e.key, e.period[1])
                  IN  IF r.raised
                      THEN [raised |-> TRUE, out |-> <<>>]
                      ELSE PeriodLoopStopsAtAbsent(Tail(entries), DictSet(acc, e.key, r.period))

\* The for loop over periods.items(); entries whose period is None are skipped.
RECURSIVE PeriodLoop(_, _)
PeriodLoop(entries, acc) ==
    IF entries = <<>>
    THEN [raised |-> FALSE, out |-> acc]
    ELSE LET e == Head(entries)
         IN  IF e.period = <<>>
             THEN PeriodLoop(Tail(entries), acc)
             ELSE LET r == ExtractPeriod(e.key, e.period[1])
                  IN  IF r.raised
                      THEN [raised |-> TRUE, out |-> <<>>]
                      ELSE PeriodLoop(Tail(entries), DictSet(acc, e.key, r.period))

extract_specials(snapshot) == PeriodLoop(snapshot, <<>>)

\* Mutant of CatAfterCall: the Hybrid filter writes its result back into the
\* station (cat.items = filtered_items).
CatAfterCallFilteredInPlace(cat) ==
    IF norm(cat.name) \in TYPE2
    THEN Category(cat.id, cat.name, HybridLoop(norm(cat.name), cat.items, {}, <<>>))
    ELSE cat

\* An input station after the call: the handlers read cat.id, cat.name and
\* cat.items, collect into the new list filtered_items and build new Category
\* values; nothing assigns to a field of cat or changes cat.items.
CatAfterCall(cat) == cat

\* The input snapshot after the call: periods is only iterated, the Period
\* values are only read.
InputAfterCall(snapshot) ==
    [i \in DOMAIN snapshot |->
        IF snapshot[i].period = <<>>
        THEN snapshot[i]
        ELSE LET p == snapshot[i].period[1]
             IN  [key |-> snapshot[i].key,
                  period |-> << Period(p.id, p.name, p.sort_order,
                                       [j \in DOMAIN p.categories |->
                                           CatAfterCall(p.categories[j])]) >>]]

----------------------------------------------------------------------------
(* Inputs *)

MaxCats == 2
MaxItems == 3

\* Display texts as an upstream feed would carry them: mixed case, stray and
\* doubled whitespace, missing (None) and empty names.
TxtCreate        == <<" "," ","C","R","E","A","T","E"," ">>
TxtFreshBowl     == <<"F","r","e","s","h"," "," ","B","o","w","l">>
TxtHotPlate      == <<"T","h","e"," ","H","o","t"," ","P","l","a","t","e"," ","(","T","e","p","p","a","n","y","a","k","i",")">>
TxtRiseAndDine   == <<"R","i","s","e"," ","A","n","d"," "," ","D","i","n","e">>
TxtTheStacks     == <<"T","h","e"," ","S","t","a","c","k","s">>
TxtLeafMarket    == <<"L","E","A","F"," ","m","a","r","k","e","t">>
TxtGrillHouse    == <<"G","r","i","l","l","\t","H","o","u","s","e">>
TxtSoup          == <<"S","o","u","p"," ","&"," ","C","o",".">>
TxtHummus        == <<"H","u","m","m","u","s">>
TxtMustard       == <<"M","u","s","t","a","r","d">>
TxtLeafLettuce   == <<"L","e","a","f"," ","L","e","t","t","u","c","e">>
TxtRedOnions     == <<"S","l","i","c","e","d"," ","R","e","d"," ","O","n","i","o","n","s">>
TxtJasmineRice   == <<" ","J","a","s","m","i","n","e"," "," ","R","I","C","E">>
TxtRamenNoodles  == <<"R","a","m","e","n"," ","N","o","o","d","l","e","s">>
TxtScrambledEggs == <<"S","c","r","a","m","b","l","e","d"," ","E","g","g","s">>
TxtSpicyMayo     == <<"S","p","i","c","y"," ","M","a","y","o">>
TxtSpicyMayo2    == <<"S","P","I","C","Y"," "," ","m","a","y","o">>
TxtDip           == <<"d","i","p">>
TxtShawarma      == <<"C","h","i","c","k","e","n"," ","S","h","a","w","a","r","m","a">>
TxtFrenchToast   == <<"F","r","e","n","c","h"," "," ","T","o","a","s","t">>
TxtPancakes      == <<"P","A","N","C","A","K","E","S">>
TxtBBQChicken    == <<"B","B","Q"," ","C","h","i","c","k","e","n">>
TxtRicePilaf     == <<"R","i","c","e"," ","P","i","l","a","f">>
TxtTomatoSauce   == <<"S","u","n","-","D","r","i","e","d"," ","T","o","m","a","t","o"," ","S","a","u","c","e">>
TxtSteamedRice   == <<"S","t","e","a","m","e","d"," ","J","a","s","m","i","n","e"," ","R","i","c","e">>

KeyBreakfast   == <<"b","r","e","a","k","f","a","s","t">>
KeyBreakfastUp == <<"B","r","e","a","k","f","a","s","t">>
KeyLunch       == <<"l","u","n","c","h">>

MealKeys == { KeyBreakfast, KeyBreakfastUp, KeyLunch }

\* The stations a period of the snapshot is made of.
CatUniqueNoName == Category(None, None,
    << MenuItem(None, None), MenuItem(TxtHummus, TxtDip), MenuItem(TxtHummus, None) >>)
CatUniqueEmptyName == Category(<<"u","2">>, <<>>, << MenuItem(<<>>, None) >>)
CatSoup == Category(<<"u","3">>, TxtSoup,
    << MenuItem(TxtScrambledEggs, None), MenuItem(TxtScrambledEggs, TxtDip) >>)
CatRise == Category(<<"h","1">>, TxtRiseAndDine,
    << MenuItem(TxtScrambledEggs, None), MenuItem(TxtSpicyMayo, TxtDip),
       MenuItem(None, None), MenuItem(TxtSpicyMayo2, None), MenuItem(TxtHummus, None) >>)
CatStacksStaples == Category(<<"h","2">>, TxtTheStacks,
    << MenuItem(TxtHummus, None), MenuItem(TxtMustard, None), MenuItem(TxtHummus, TxtDip) >>)
CatCreate == Category(<<"m","1">>, TxtCreate,
    << MenuItem(None, None), MenuItem(TxtRamenNoodles, None), MenuItem(TxtJasmineRice, TxtDip) >>)
CatFreshBowl == Category(<<"m","2">>, TxtFreshBowl, << MenuItem(TxtSpicyMayo, None) >>)
CatHotPlateEmpty == Category(<<"m","3">>, TxtHotPlate, <<>>)

CatPool == { CatUniqueNoName, CatUniqueEmptyName, CatSoup, CatRise, CatStacksStaples,
             CatCreate, CatFreshBowl, CatHotPlateEmpty }

\* All sequences over S of length at most n.
SeqsUpTo(S, n) == UNION { [1..k -> S] : k \in 0..n }

\* A period of the feed with the given stations.
PeriodOf(cats) == Period(<<"p","1">>, <<"M","e","a","l">>, 1, cats)

\* Optional[Period] values with exactly k stations; None counts as none.
OptPeriodsOfSize(k) ==
    { << PeriodOf(cats) >> : cats \in [1..k -> CatPool] }
    \cup (IF k = 0 THEN { <<>> } ELSE {})

OptPeriodsUpTo(n) == UNION { OptPeriodsOfSize(k) : k \in 0..n }

\* A snapshot is an insertion-ordered dict: at most two entries, distinct
\* keys, and at most MaxCats stations in all.
IsSnapshot(snapshot) ==
    \/ snapshot = <<>>
    \/ \E k \in MealKeys, p \in OptPeriodsUpTo(MaxCats) :
           snapshot = << [key |-> k, period |-> p] >>
    \/ \E a \in 0..MaxCats :
           \E k1 \in MealKeys, p1 \in OptPeriodsOfSize(a) :
               \E k2 \in MealKeys \ {k1}, p2 \in OptPeriodsUpTo(MaxCats - a) :
                   snapshot = << [key |-> k1, period |-> p1], [key |-> k2, period |-> p2] >>

----------------------------------------------------------------------------
(* Specification of extract_specials: one call on a snapshot *)

Init ==
    /\ IsSnapshot(periods)
    /\ out = <<>>
    /\ status = "ready"
    /\ arg = <<>>
    /\ ret = <<>>
    /\ called = "none"
    /\ NoFetch

CallExtractSpecials ==
    /\ status = "ready"
    /\ LET r == extract_specials(periods)
       IN  /\ status' = IF r.raised THEN "IndexError" ELSE "returned"
           /\ out' = r.out
    /\ periods' = InputAfterCall(periods)
    /\ UNCHANGED <<arg, ret, called>>
    /\ UNCHANGED fetchVars

Next == CallExtractSpecials

Spec == Init /\ [][Next]_vars

----------------------------------------------------------------------------
(* Specification of _handle_type2_hybrid: one call on a Hybrid station *)

HybridStationNames == { TxtRiseAndDine, TxtTheStacks, TxtLeafMarket, TxtGrillHouse }

\* Staples of one or of two stations, a special under two spellings, and
\* missing and empty names.
HybridItemPool ==
    { MenuItem(n, None) : n \in { None, <<>>, TxtHummus, TxtScrambledEggs, TxtLeafLettuce,
                                  TxtRedOnions, TxtSpicyMayo, TxtSpicyMayo2 } }
    \cup { MenuItem(TxtHummus, TxtDip) }

InitHybrid ==
    /\ \E name \in HybridStationNames, items \in SeqsUpTo(HybridItemPool, MaxItems) :
           arg = Category(<<"h","1">>, name, items)
    /\ ret = <<>>
    /\ called = "none"
    /\ periods = <<>>
    /\ out = <<>>
    /\ status = "idle"
    /\ NoFetch

CallHybrid ==
    /\ called = "none"
    /\ called' = "_handle_type2_hybrid"
    /\ ret' = _handle_type2_hybrid(arg)
    /\ UNCHANGED <<arg, periods, out, status>>
    /\ UNCHANGED fetchVars

NextHybrid == CallHybrid

SpecHybrid == InitHybrid /\ [][NextHybrid]_vars

----------------------------------------------------------------------------
(* Specification of _handle_type3_morph: one call on a Morph station *)

MorphStationNames == { TxtCreate, TxtFreshBowl }

\* One signature of each of the nine tables, a name that is no signature, and
\* a missing name.
MorphItemPool ==
    { MenuItem(n, None) : n \in { TxtJasmineRice, TxtShawarma, TxtFrenchToast, TxtPancakes,
                                  TxtBBQChicken, TxtHummus, TxtRamenNoodles, TxtRicePilaf,
                                  TxtTomatoSauce, TxtSpicyMayo, None } }

InitMorph ==
    /\ \E name \in MorphStationNames, items \in SeqsUpTo(MorphItemPool, MaxItems) :
           arg = Category(<<"m","1">>, name, items)
    /\ ret = <<>>
    /\ called = "none"
    /\ periods = <<>>
    /\ out = <<>>
    /\ status = "idle"
    /\ NoFetch

CallMorph ==
    /\ called = "none"
    /\ called' = "_handle_type3_morph"
    /\ ret' = << _handle_type3_morph(arg) >>
    /\ UNCHANGED <<arg, periods, out, status>>
    /\ UNCHANGED fetchVars

NextMorph == CallMorph

SpecMorph == InitMorph /\ [][NextMorph]_vars

----------------------------------------------------------------------------
(* Vocabulary of the properties *)

Range(seq) == { seq[i] : i \in DOMAIN seq }

KeysOf(snapshot) == [i \in DOMAIN snapshot |-> snapshot[i].key]

IsBreakfastKey(key) == Lower(key) = Breakfast

IsMorph(cat) == norm(cat.name) \in TYPE3

IsHybrid(cat) == norm(cat.name) \in TYPE2

\* An output category derives from the input station with its id and name.
DerivedFrom(oc, ic) == oc.id = ic.id /\ oc.name = ic.name

\* a embeds in b in order: a strictly increasing map of positions under which
\* related elements correspond.
Embeds(a, b, R(_, _)) ==
    \E f \in [DOMAIN a -> DOMAIN b] :
        /\ \A i, j \in DOMAIN a : i < j => f[i] < f[j]
        /\ \A i \in DOMAIN a : R(a[i], b[f[i]])

\* The categories of the input period stored under key (no entry or an
\* absent period: none).
InputCats(key) ==
    IF \E i \in DOMAIN periods : periods[i].key = key /\ periods[i].period # <<>>
    THEN (periods[CHOOSE i \in DOMAIN periods : periods[i].key = key].period[1]).categories
    ELSE <<>>

\* The (output key, output categories) pairs of a call that returned.
OutPeriods ==
    IF status = "returned"
    THEN { [key |-> out[i].key, cats |-> (out[i].period[1]).categories] : i \in DOMAIN out }
    ELSE {}

\* The present input periods, as (key, categories) pairs.
InPeriods ==
    { [key |-> periods[i].key, cats |-> (periods[i].period[1]).categories] :
        i \in { j \in DOMAIN periods : periods[j].period # <<>> } }

----------------------------------------------------------------------------
(* C1 *)

\* C1: every call of extract_specials completes without raising, and a Morph
\* station with an empty item list appears in the output (of a period that is
\* not the breakfast one) with a single item named by the station's display
\* name.  The code raises IndexError at cat.items[0] on such a station.
C1_EmptyMorphAbsorbed ==
    status # "ready" =>
        /\ status = "returned"
        /\ \A ip \in InPeriods : \A ic \in Range(ip.cats) :
              (IsMorph(ic) /\ ic.items = <<>> /\ ~IsBreakfastKey(ip.key)) =>
                  \E op \in OutPeriods :
                      /\ op.key = ip.key
                      /\ \E oc \in Range(op.cats) :
                            /\ DerivedFrom(oc, ic)
                            /\ Len(oc.items) = 1
                            /\ oc.items[1].name = ic.name

----------------------------------------------------------------------------
(* C2 *)

\* C2 as stated: the returned mapping has the same set of meal keys as the
\* input, a key whose period is absent included.
C2_SameKeySet ==
    status = "returned" => Range(KeysOf(out)) = Range(KeysOf(periods))

\* C2 amended: the keys of the returned mapping are the input keys whose
\* period is present, in input order; a key whose period is absent in the
\* input is not a key of the output.
C2_KeysOfPresentPeriods ==
    status = "returned" =>
        KeysOf(out) = KeysOf(SelectSeq(periods, LAMBDA e : e.period # <<>>))

C2_Witness ==
    /\ status = "returned"
    /\ Len(periods) = 2
    /\ periods[1].period = <<>>
    /\ periods[2].period # <<>>
    /\ KeysOf(out) = << periods[2].key >>

----------------------------------------------------------------------------
(* C3 *)

\* C3: in the output period of a meal key that equals "breakfast" compared
\* case-insensitively, every category has normalized name "rise and dine".
C3_BreakfastOnlyRiseAndDine ==
    \A op \in OutPeriods :
        IsBreakfastKey(op.key) =>
            \A oc \in Range(op.cats) : norm(oc.name) = RiseAndDine

\* A returned call whose "Breakfast" period (capitalised key) held a
\* non-empty station that is not Rise and Dine, which the output lacks.
C3_Witness ==
    /\ status = "returned"
    /\ \E ip \in InPeriods :
          /\ ip.key = KeyBreakfastUp
          /\ \E ic \in Range(ip.cats) : norm(ic.name) # RiseAndDine /\ ic.items # <<>>
          /\ \E op \in OutPeriods :
                op.key = ip.key /\ Len(op.cats) < Len(ip.cats)

----------------------------------------------------------------------------
(* C4 *)

\* C4: in every output period every category of a Unique or Hybrid station
\* precedes every category of a Morph station, and the categories of each of
\* the two groups keep the relative order of their input stations.
C4_MorphLastOrderKept ==
    \A op \in OutPeriods :
        LET inCats == InputCats(op.key)
            outUH == SelectSeq(op.cats, LAMBDA c : ~IsMorph(c))
            outM == SelectSeq(op.cats, LAMBDA c : IsMorph(c))
            inUH == SelectSeq(inCats, LAMBDA c : ~IsMorph(c))
            inM == SelectSeq(inCats, LAMBDA c : IsMorph(c))
        IN  /\ \A p, q \in DOMAIN op.cats :
                  (p < q /\ IsMorph(op.cats[p])) => IsMorph(op.cats[q])
            /\ Embeds(outUH, inUH, DerivedFrom)
            /\ Embeds(outM, inM, DerivedFrom)

\* A returned call with a period whose Morph station came before a Unique or
\* Hybrid one in the input and comes after it in the output.
C4_Witness ==
    \E op \in OutPeriods :
        LET inCats == InputCats(op.key)
        IN  /\ Len(inCats) = 2
            /\ Len(op.cats) = 2
            /\ IsMorph(inCats[1]) /\ ~IsMorph(inCats[2])
            /\ DerivedFrom(op.cats[1], inCats[2])
            /\ DerivedFrom(op.cats[2], inCats[1])

----------------------------------------------------------------------------
(* C5 *)

\* The output category of a Morph station: its id and name, and the detected
\* label as the name of its only item, which has no description.
IsMorphOutputOf(oc, ic) ==
    /\ DerivedFrom(oc, ic)
    /\ Len(oc.items) = 1
    /\ oc.items[1].name = (_handle_type3_morph(ic)).name
    /\ oc.items[1].description = None

\* C5: whenever the call returns, every output category of a Morph station
\* has exactly one item, named by the detected label and without description,
\* and the id and name of its input station; and in a period that is not the
\* breakfast one every Morph station of the input has that output category.
C5_MorphSingleLabelItem ==
    \A op \in OutPeriods :
        /\ \A oc \in Range(op.cats) :
              IsMorph(oc) =>
                  \E ic \in Range(InputCats(op.key)) : IsMorph(ic) /\ IsMorphOutputOf(oc, ic)
        /\ ~IsBreakfastKey(op.key) =>
              \A ic \in Range(InputCats(op.key)) :
                  IsMorph(ic) => \E oc \in Range(op.cats) : IsMorphOutputOf(oc, ic)

\* A returned call whose output holds the Create station with the single item
\* "Teppenyaki Station".
C5_Witness ==
    \E op \in OutPeriods :
        /\ CatCreate \in Range(InputCats(op.key))
        /\ Category(CatCreate.id, CatCreate.name, << MenuItem(TeppenyakiStation, None) >>)
               \in Range(op.cats)

----------------------------------------------------------------------------
(* C6 *)

\* The (signature set, label) pairs in the order of the claim.
Tiers ==
    << [sigs |-> TEPPAN_SIGNATURE, label |-> TeppenyakiStation],
       [sigs |-> SHAWARMA_SIGNATURE, label |-> ShawarmaStation],
       [sigs |-> FRENCH_TOAST_SIGNATURE, label |-> FrenchToastBar],
       [sigs |-> PANCAKE_SIGNATURE, label |-> PancakesBar],
       [sigs |-> RICE_BOWL_SIGNATURE, label |-> RiceBowlBar],
       [sigs |-> MEZZE_BAR_SIGNATURE, label |-> MezzeBar],
       [sigs |-> RAMEN_BAR_SIGNATURE, label |-> RamenStation],
       [sigs |-> CURRY_BAR_SIGNATURE, label |-> CurryStation],
       [sigs |-> PASTA_BAR_SIGNATURE, label |-> PastaStation] >>

\* One of the first three normalized item names of cat is a signature of tier t.
TierMatchesFirstThree(t, cat) ==
    \E p \in DOMAIN cat.items : p <= 3 /\ norm(cat.items[p].name) \in Tiers[t].sigs

\* C6: when the first three normalized item names of a Morph station match
\* the signature sets of two pairs, the label is never that of the later
\* pair, and it is that of the earlier pair unless a pair before both matches
\* too (then it is that one's).
C6_EarlierTierWins ==
    called = "_handle_type3_morph" =>
        LET matching == { t \in DOMAIN Tiers : TierMatchesFirstThree(t, arg) }
        IN  \A i, j \in matching :
                i < j =>
                    /\ (ret[1]).name # Tiers[j].label
                    /\ (\A k \in matching : k >= i) => (ret[1]).name = Tiers[i].label

\* A call on a station whose first three items match Mezze, Curry and Pasta:
\* the label is the Mezze one.
C6_Witness ==
    /\ called = "_handle_type3_morph"
    /\ TierMatchesFirstThree(6, arg)
    /\ TierMatchesFirstThree(8, arg)
    /\ TierMatchesFirstThree(9, arg)
    /\ \A k \in 1..5 : ~TierMatchesFirstThree(k, arg)
    /\ (ret[1]).name = MezzeBar

----------------------------------------------------------------------------
(* C7 *)

\* No pair matches the station: none of the first eight on the first three
\* item names, the last one on no item name at all.
NoTierMatches(cat) ==
    /\ \A t \in 1..8 : ~TierMatchesFirstThree(t, cat)
    /\ \A p \in DOMAIN cat.items : norm(cat.items[p].name) \notin Tiers[9].sigs

\* C7: whenever the call returns, the output category of a Morph station that
\* no pair matches has one item, whose name is the station's display name
\* character for character.
C7_FallbackIsDisplayName ==
    \A op \in OutPeriods :
        \A oc \in Range(op.cats) :
            \A ic \in Range(InputCats(op.key)) :
                (IsMorph(ic) /\ DerivedFrom(oc, ic) /\ NoTierMatches(ic)) =>
                    Len(oc.items) = 1 /\ oc.items[1].name = ic.name

\* A returned call whose output holds the station "Fresh  Bowl" (no pair
\* matches its items) with the item "Fresh  Bowl", which is not its
\* normalized name.
C7_Witness ==
    \E op \in OutPeriods :
        /\ CatFreshBowl \in Range(InputCats(op.key))
        /\ NoTierMatches(CatFreshBowl)
        /\ norm(CatFreshBowl.name) # CatFreshBowl.name
        /\ \E oc \in Range(op.cats) :
              DerivedFrom(oc, CatFreshBowl) /\ oc.items = << MenuItem(TxtFreshBowl, None) >>

----------------------------------------------------------------------------
(* C8 *)

\* The repeat table of the hybrid station with normalized name cname.
RepeatTable(cname) ==
    CASE cname = RiseAndDine -> RISE_AND_DINE
      [] cname = TheStacks -> STACKS
      [] cname = LeafMarket -> LEAF_MARKET
      [] cname = GrillHouse -> GRILL_HOUSE
      [] OTHER -> {}

\* Item i of cat repeats an earlier item of cat by normalized name.
IsDuplicate(cat, i) ==
    \E j \in DOMAIN cat.items : j < i /\ norm(cat.items[j].name) = norm(cat.items[i].name)

IsStaple(cat, i) == norm(cat.items[i].name) \in RepeatTable(norm(cat.name))

\* C8: the Hybrid handler returns None exactly when every item of the
\* category is a duplicate of an earlier item or a staple of that station.
C8_NoneIffAllRepeats ==
    called = "_handle_type2_hybrid" =>
        (ret = <<>> <=> \A i \in DOMAIN arg.items : IsDuplicate(arg, i) \/ IsStaple(arg, i))

\* A call that returned None on a category of three items: two staples of
\* the station and a duplicate of one of them.
C8_Witness ==
    /\ called = "_handle_type2_hybrid"
    /\ ret = <<>>
    /\ Len(arg.items) = 3
    /\ \E i \in DOMAIN arg.items : IsDuplicate(arg, i)
    /\ \E i, j \in DOMAIN arg.items :
          /\ norm(arg.items[i].name) # norm(arg.items[j].name)
          /\ IsStaple(arg, i) /\ IsStaple(arg, j)

----------------------------------------------------------------------------
(* C9 *)

\* C9: the item list of the category the Hybrid handler returns is a
\* subsequence of the input item list, so never longer than it.
C9_ItemsSubsequence ==
    (called = "_handle_type2_hybrid" /\ ret # <<>>) =>
        /\ Embeds((ret[1]).items, arg.items, LAMBDA a, b : a = b)
        /\ Len((ret[1]).items) <= Len(arg.items)

\* A call that kept two different items of three.
C9_Witness ==
    /\ called = "_handle_type2_hybrid"
    /\ ret # <<>>
    /\ Len(arg.items) = 3
    /\ Len((ret[1]).items) = 2
    /\ (ret[1]).items[1] # (ret[1]).items[2]

----------------------------------------------------------------------------
(* C10 *)

\* A missing (None) or empty name.
IsNameless(x) == x.name = None \/ x.name = <<>>

\* C10: a missing or empty name normalizes to the empty string; the call
\* raises only on a Morph station without items, never because of such a
\* name; and in a returned period that is not the breakfast one a station
\* with such a name is passed through as it is, and the first item with such
\* a name of a Hybrid station is kept like any item that is no staple.
C10_NamelessAbsorbed ==
    /\ norm(None) = <<>>
    /\ norm(<<>>) = <<>>
    /\ status = "IndexError" =>
          \E ip \in InPeriods : \E ic \in Range(ip.cats) : IsMorph(ic) /\ ic.items = <<>>
    /\ \A op \in OutPeriods :
          ~IsBreakfastKey(op.key) =>
              \A ic \in Range(InputCats(op.key)) :
                  /\ IsNameless(ic) => ic \in Range(op.cats)
                  /\ (IsHybrid(ic) /\ \E i \in DOMAIN ic.items : IsNameless(ic.items[i])) =>
                        \E oc \in Range(op.cats) :
                            /\ DerivedFrom(oc, ic)
                            /\ \E i \in DOMAIN ic.items :
                                  /\ IsNameless(ic.items[i])
                                  /\ \A j \in 1..(i - 1) : ~IsNameless(ic.items[j])
                                  /\ ic.items[i] \in Range(oc.items)

\* A returned call with a lunch period of a station without name, whose
\* items have missing names too, and a Hybrid station with an item without
\* name: both are in the output, the item included.
C10_Witness ==
    \E op \in OutPeriods :
        /\ op.key = KeyLunch
        /\ InputCats(op.key) = << CatUniqueNoName, CatRise >>
        /\ CatUniqueNoName \in Range(op.cats)
        /\ \E oc \in Range(op.cats) :
              DerivedFrom(oc, CatRise) /\ MenuItem(None, None) \in Range(oc.items)

----------------------------------------------------------------------------
(* C11 *)

----------------------------------------------------------------------------
(* C12: the dispatch of one station, on two stations at a time *)

UpperChar(c) ==
    IF \E k \in DOMAIN ToLower : ToLower[k] = c
    THEN CHOOSE k \in DOMAIN ToLower : ToLower[k] = c
    ELSE c

\* s in capitals.
Upper(s) == [i \in DOMAIN s |-> UpperChar(s[i])]

\* s with whitespace before and after it.
Padded(s) == <<" ", "\t">> \o s \o <<" ">>

\* s with every space doubled.
RECURSIVE DoubleSpaces(_)
DoubleSpaces(s) ==
    IF s = <<>> THEN <<>>
    ELSE (IF Head(s) = " " THEN <<" ", " ">> ELSE << Head(s) >>) \o DoubleSpaces(Tail(s))

\* Names in canonical form: those of the two fixed sets and some of neither.
KindBaseNames ==
    TYPE3 \cup TYPE2
    \cup { <<>>,
           <<"s","o","u","p">>,
           <<"h","o","t"," ","p","l","a","t","e">>,
           <<"t","h","e"," ","h","o","t"," ","p","l","a","t","e"," ","t","e","p","p","a","n","y","a","k","i">>,
           <<"r","i","s","e"," ","&"," ","d","i","n","e">> }

\* The spellings of a canonical name that differ from it only in letter case,
\* leading and trailing whitespace and runs of internal whitespace.
Spellings(base) ==
    { base, Upper(base), Padded(base), DoubleSpaces(base), Padded(Upper(DoubleSpaces(base))) }
    \cup (IF base = <<>> THEN { None } ELSE {})

KindItemLists ==
    { <<>>,
      << MenuItem(TxtHummus, None) >>,
      << MenuItem(TxtJasmineRice, None), MenuItem(TxtSpicyMayo, TxtDip) >> }

InitKind ==
    /\ \E base \in KindBaseNames :
          \E name1 \in Spellings(base), name2 \in Spellings(base) :
              \E items1 \in KindItemLists, items2 \in KindItemLists :
                  arg = [base |-> base,
                         cats |-> << Category(<<"c","1">>, name1, items1),
                                     Category(<<"c","2">>, name2, items2) >>]
    /\ ret = <<>>
    /\ called = "none"
    /\ periods = <<>>
    /\ out = <<>>
    /\ status = "idle"
    /\ NoFetch

CallDispatch ==
    /\ called = "none"
    /\ called' = "dispatch"
    /\ ret' = << StationKind(arg.cats[1]), StationKind(arg.cats[2]) >>
    /\ UNCHANGED <<arg, periods, out, status>>
    /\ UNCHANGED fetchVars

NextKind == CallDispatch

SpecKind == InitKind /\ [][NextKind]_vars

\* C12: two stations whose names are spellings of one canonical name get the
\* same kind whatever their items are, and that kind is Morph, Hybrid or
\* Unique as the canonical name is in the morph set, the hybrid set or neither.
C12_KindByNormalizedName ==
    called = "dispatch" =>
        /\ ret[1] = ret[2]
        /\ ret[1] = (IF arg.base \in TYPE3 THEN "Morph"
                     ELSE IF arg.base \in TYPE2 THEN "Hybrid"
                     ELSE "Unique")

\* Two Morph stations spelled differently and with different items.
C12_Witness ==
    /\ called = "dispatch"
    /\ ret = << "Morph", "Morph" >>
    /\ arg.cats[1].name # arg.cats[2].name
    /\ arg.cats[1].name # arg.base
    /\ arg.cats[1].items = <<>>
    /\ arg.cats[2].items # <<>>

(***************************************************************************)
(* C13: norm applied to its own result.                                    *)
(***************************************************************************)

\* The longest text norm is applied to.
MaxText == 4

\* Characters of the texts: a lower-case letter, a capital, two kinds of
\* whitespace.
TextAlphabet == {"a", "B", " ", "\t"}

\* Every text of at most MaxText characters, and None.
Texts == UNION {[1..n -> TextAlphabet] : n \in 0..MaxText} \cup {None}

InitNorm ==
    /\ arg \in Texts
    /\ periods = <<>>
    /\ out = <<>>
    /\ ret = <<>>
    /\ called = "none"
    /\ status = "idle"
    /\ NoFetch

\* norm(x), and norm of that result.
CallNorm ==
    /\ status = "idle"
    /\ ret' = <<norm(arg), norm(norm(arg))>>
    /\ called' = "norm"
    /\ status' = "returned"
    /\ UNCHANGED <<periods, out, arg>>
    /\ UNCHANGED fetchVars

NextNorm == CallNorm

SpecNorm == InitNorm /\ [][NextNorm]_vars

\* C13: for every text x, None and the empty string included, norm(x) is a
\* text, norm(norm(x)) = norm(x), and norm(None) = norm("") = "".
C13_NormIdempotentTotal ==
    called = "norm" =>
        /\ ret[1] \in Seq(TextAlphabet \cup {"a", "b"})
        /\ ret[2] = ret[1]
        /\ arg \in {None, <<>>} => ret[1] = <<>>

\* norm changed the text (capitals, outer and doubled whitespace), and the
\* second application changed nothing more.
C13_Witness ==
    /\ called = "norm"
    /\ arg = <<"B", " ", "\t", "a">>
    /\ ret[1] = <<"b", " ", "a">>
    /\ ret[2] = ret[1]

(***************************************************************************)
(* C14: where in the item list a signature makes a pair match.             *)
(***************************************************************************)

\* The most items that follow the leading ones.
MaxTail == 1

\* Names that are no signature; the second holds the Teppan signature
\* "jasmine rice" as a substring.
LeadingItemPool == { MenuItem(TxtSpicyMayo, None), MenuItem(TxtSteamedRice, None) }

\* A Morph station with up to three leading items that are no signatures,
\* followed by up to MaxTail items of MorphItemPool: a signature stands at
\* any of the positions 1 to 3 + MaxTail.
InitMorphTail ==
    /\ \E name \in MorphStationNames, leading \in SeqsUpTo(LeadingItemPool, 3),
          tail \in SeqsUpTo(MorphItemPool, MaxTail) :
           arg = Category(<<"m","1">>, name, leading \o tail)
    /\ ret = <<>>
    /\ called = "none"
    /\ periods = <<>>
    /\ out = <<>>
    /\ status = "idle"
    /\ NoFetch

SpecMorphTail == InitMorphTail /\ [][NextMorph]_vars

\* Pair t matches cat as the claim has it: a pair other than the last on an
\* exact signature among the first three normalized item names, the last one
\* on an exact signature at any position.
PairMatches(t, cat) ==
    IF t < Len(Tiers)
    THEN TierMatchesFirstThree(t, cat)
    ELSE \E p \in DOMAIN cat.items : norm(cat.items[p].name) \in Tiers[t].sigs

\* C14: the label is that of the first pair matching in this sense, and the
\* station's name when none does: a pair other than Pasta matches exactly
\* when one of the first three normalized item names equals one of its
\* signatures (not on the fourth or a later item, not on a substring), Pasta
\* exactly when an item name at any position does.
C14_MatchByPosition ==
    called = "_handle_type3_morph" =>
        LET matching == { t \in DOMAIN Tiers : PairMatches(t, arg) }
        IN  /\ matching = {} => (ret[1]).name = arg.name
            /\ \A t \in matching :
                   (\A k \in matching : k >= t) => (ret[1]).name = Tiers[t].label

\* A station whose first three names hold "jasmine rice" only as a substring
\* and whose fourth item is the Ramen signature: no pair matches and the
\* label is the station's name.
C14_Witness ==
    /\ called = "_handle_type3_morph"
    /\ Len(arg.items) = 4
    /\ arg.items[1].name = TxtSteamedRice
    /\ norm(arg.items[4].name) \in RAMEN_BAR_SIGNATURE
    /\ (ret[1]).name = arg.name

----------------------------------------------------------------------------
(* C15 *)

\* The items of cat from index i on that are the first occurrence of their
\* normalized name in cat and no staple of cat's own station, in input order.
RECURSIVE FirstNonStaplesFrom(_, _)
FirstNonStaplesFrom(cat, i) ==
    IF i > Len(cat.items) THEN <<>>
    ELSE (IF IsDuplicate(cat, i) \/ IsStaple(cat, i) THEN <<>> ELSE << cat.items[i] >>)
         \o FirstNonStaplesFrom(cat, i + 1)

\* The normalized name of item i of cat is a staple of a hybrid station other
\* than cat's, and not of cat's.
IsStapleElsewhereOnly(cat, i) ==
    /\ ~IsStaple(cat, i)
    /\ norm(cat.items[i].name) \in RISE_AND_DINE \cup STACKS \cup LEAF_MARKET \cup GRILL_HOUSE

\* C15: the category the Hybrid handler returns has the input's id and name,
\* and its items are exactly the input items that are the first occurrence of
\* their normalized name and no staple of the station itself, in input order;
\* a staple of another hybrid station only is among them.
C15_FirstNonStaplesKept ==
    (called = "_handle_type2_hybrid" /\ ret # <<>>) =>
        /\ (ret[1]).id = arg.id
        /\ (ret[1]).name = arg.name
        /\ (ret[1]).items = FirstNonStaplesFrom(arg, 1)
        /\ \A i \in DOMAIN arg.items :
               (IsStapleElsewhereOnly(arg, i) /\ ~IsDuplicate(arg, i)) =>
                   arg.items[i] \in Range((ret[1]).items)

\* A returned category of one item, a staple of another station, from three
\* items: that one, its repetition and a staple of the station itself.
C15_Witness ==
    /\ called = "_handle_type2_hybrid"
    /\ ret # <<>>
    /\ Len(arg.items) = 3
    /\ Len((ret[1]).items) = 1
    /\ \E i, j, k \in DOMAIN arg.items :
          /\ IsStapleElsewhereOnly(arg, i) /\ ~IsDuplicate(arg, i)
          /\ (ret[1]).items = << arg.items[i] >>
          /\ IsDuplicate(arg, j) /\ ~IsStaple(arg, j)
          /\ IsStaple(arg, k)

----------------------------------------------------------------------------
(* C16 *)

\* The Hybrid handler returns nothing for cat (as C8 has it): a Hybrid
\* station whose every item repeats an earlier one or is a staple of it.
IsDroppedHybrid(cat) ==
    /\ IsHybrid(cat)
    /\ \A i \in DOMAIN cat.items : IsDuplicate(cat, i) \/ IsStaple(cat, i)

\* C16: in a returned call, a period whose key is not "breakfast" in any
\* case has, for every input category, as many output categories with its
\* id and name as the input has undropped ones (one each; none for a Hybrid
\* station the handler returns nothing for), and no output category without
\* an input one: no Unique or Morph station is dropped, none is added.
C16_OnePerInputCategory ==
    \A op \in OutPeriods :
        ~IsBreakfastKey(op.key) =>
            LET inCats == InputCats(op.key)
                kept == SelectSeq(inCats, LAMBDA c : ~IsDroppedHybrid(c))
            IN  /\ Len(op.cats) = Len(kept)
                /\ \A ic \in Range(inCats) :
                       Cardinality({ p \in DOMAIN op.cats : DerivedFrom(op.cats[p], ic) })
                           = Cardinality({ q \in DOMAIN kept : DerivedFrom(kept[q], ic) })
                /\ \A oc \in Range(op.cats) : \E ic \in Range(inCats) : DerivedFrom(oc, ic)

\* A returned call with a lunch period of two stations, a Hybrid one the
\* handler returns nothing for and a Morph one: the output period holds the
\* Morph station alone.
C16_Witness ==
    \E op \in OutPeriods :
        /\ ~IsBreakfastKey(op.key)
        /\ Len(InputCats(op.key)) = 2
        /\ Len(op.cats) = 1
        /\ \E ic \in Range(InputCats(op.key)) : IsDroppedHybrid(ic)
        /\ \E ic \in Range(InputCats(op.key)) : IsMorph(ic) /\ DerivedFrom(op.cats[1], ic)

----------------------------------------------------------------------------
(* C17 *)

IsUnique(cat) == ~IsHybrid(cat) /\ ~IsMorph(cat)

\* C17: in a returned call, every Unique station of an input period whose
\* key is not "breakfast" in any case is a category of the output period,
\* with the id, the name and the whole item list of the input, repeated
\* items and staples of hybrid stations included.
C17_UniqueUnchanged ==
    \A op \in OutPeriods :
        ~IsBreakfastKey(op.key) =>
            \A ic \in Range(InputCats(op.key)) :
                IsUnique(ic) => \E oc \in Range(op.cats) :
                                    oc.id = ic.id /\ oc.name = ic.name /\ oc.items = ic.items

\* A returned call whose lunch output holds a Unique station with three
\* items, of which one repeats another by normalized name and is a staple
\* of The Stacks.
C17_Witness ==
    \E op \in OutPeriods :
        /\ ~IsBreakfastKey(op.key)
        /\ \E ic \in Range(InputCats(op.key)) :
              /\ IsUnique(ic)
              /\ ic \in Range(op.cats)
              /\ Len(ic.items) = 3
              /\ \E i \in DOMAIN ic.items :
                    IsDuplicate(ic, i) /\ norm(ic.items[i].name) \in STACKS

----------------------------------------------------------------------------
(* C18 *)

\* C18: in the output of every returned call, breakfast periods included, a
\* category whose normalized name is a hybrid station name has at least one
\* item, no item that is a staple of that station, and no item repeating the
\* normalized name of an earlier one.
C18_HybridOutputFiltered ==
    \A op \in OutPeriods :
        \A oc \in Range(op.cats) :
            IsHybrid(oc) =>
                /\ Len(oc.items) >= 1
                /\ \A i \in DOMAIN oc.items : ~IsStaple(oc, i) /\ ~IsDuplicate(oc, i)

\* A returned call with a Hybrid station in the output that kept several
\* items of an input station holding a staple of it and a repeated name.
C18_Witness ==
    \E op \in OutPeriods :
        \E oc \in Range(op.cats) :
            /\ IsHybrid(oc)
            /\ Len(oc.items) >= 2
            /\ \E ic \in Range(InputCats(op.key)) :
                  /\ DerivedFrom(oc, ic)
                  /\ \E i, j \in DOMAIN ic.items :
                        IsStaple(ic, i) /\ IsDuplicate(ic, j) /\ ~IsStaple(ic, j)

(***************************************************************************)
(* C19: the Morph handler on two stations with one item list.              *)
(***************************************************************************)

\* The pairs of different station names the two calls are made with.
MorphNamePairs == { << TxtCreate, TxtFreshBowl >>, << TxtHotPlate, TxtCreate >> }

InitMorphPair ==
    /\ \E names \in MorphNamePairs, items \in SeqsUpTo(MorphItemPool, MaxItems) :
           arg = << Category(<<"m","1">>, names[1], items),
                    Category(<<"m","2">>, names[2], items) >>
    /\ ret = <<>>
    /\ called = "none"
    /\ periods = <<>>
    /\ out = <<>>
    /\ status = "idle"
    /\ NoFetch

\* _handle_type3_morph on the one station and on the other.
CallMorphPair ==
    /\ called = "none"
    /\ called' = "_handle_type3_morph twice"
    /\ ret' = << _handle_type3_morph(arg[1]), _handle_type3_morph(arg[2]) >>
    /\ UNCHANGED <<arg, periods, out, status>>
    /\ UNCHANGED fetchVars

NextMorphPair == CallMorphPair

SpecMorphPair == InitMorphPair /\ [][NextMorphPair]_vars

\* C19: two Morph stations with different names and the same items get the
\* same label when some pair matches the items, whatever the names; when no
\* pair matches, each gets its own name.
C19_LabelByItemsOnly ==
    called = "_handle_type3_morph twice" =>
        IF \E t \in DOMAIN Tiers : PairMatches(t, arg[1])
        THEN /\ (ret[1]).name = (ret[2]).name
             /\ \E t \in DOMAIN Tiers : (ret[1]).name = Tiers[t].label
        ELSE /\ (ret[1]).name = arg[1].name
             /\ (ret[2]).name = arg[2].name

\* The stations "Create" and "Fresh Bowl" with the Hot Plate signature
\* "jasmine rice" among their items: both are labelled Teppenyaki Station.
C19_Witness ==
    /\ called = "_handle_type3_morph twice"
    /\ norm(arg[1].name) = norm(TxtCreate)
    /\ norm(arg[2].name) = norm(TxtFreshBowl)
    /\ arg[1].items # <<>>
    /\ (ret[1]).name = TeppenyakiStation
    /\ (ret[2]).name = TeppenyakiStation

(***************************************************************************)
(* fetch_daily_menu (src/diningbot/fetch_menu.py): one fetch task per meal *)
(* key on a thread pool, the results parsed in completion order, the       *)
(* mapping rebuilt in the order of PERIOD_KEYS.                            *)
(*                                                                         *)
(* A JSON object is a record; a JSON value that may be null, {} or missing *)
(* is a sequence of length 0 (falsy) or 1.                                 *)
(***************************************************************************)

KeyDinner == <<"d","i","n","n","e","r">>

PERIOD_KEYS == << KeyBreakfast, KeyLunch, KeyDinner >>

\* it.get("name") or it.get("item") or ""
ItemName(it) ==
    IF it.name \notin { None, <<>> } THEN it.name
    ELSE IF it.item \notin { None, <<>> } THEN it.item
    ELSE <<>>

\* The items loop of parse_period: falsy entries are skipped.
ParseItems(items_raw) ==
    LET present == SelectSeq(items_raw, LAMBDA it : it # <<>>)
    IN  [i \in DOMAIN present |-> MenuItem(ItemName(present[i][1]), present[i][1].description)]

\* The categories loop of parse_period: falsy entries are skipped.
ParseCategories(categories_raw) ==
    LET present == SelectSeq(categories_raw, LAMBDA c : c # <<>>)
    IN  [i \in DOMAIN present |->
            Category(present[i][1].id, present[i][1].name, ParseItems(present[i][1].items))]

\* A JSON period object; {} reads as RawPeriod(None, "", 0, []).
RawPeriod(id, name, sort_order, categories) ==
    [id |-> id, name |-> name, sort_order |-> sort_order, categories |-> categories]

\* The object parse_period reads the period from: data["period"], else the
\* first of data["menu"]["periods"], else data itself when it has categories,
\* else {}.
PeriodObj(data) ==
    IF data.period # <<>> THEN data.period[1]
    ELSE IF data.menu_periods # <<>>
         THEN IF data.menu_periods[1] # <<>> THEN data.menu_periods[1][1]
              ELSE RawPeriod(None, <<>>, 0, <<>>)
    ELSE IF data.categories # <<>>
         THEN RawPeriod(data.id, data.name, data.sort_order, data.categories)
    ELSE RawPeriod(None, <<>>, 0, <<>>)

parse_period(data) ==
    LET period_obj == PeriodObj(data)
    IN  Period(period_obj.id, period_obj.name, period_obj.sort_order,
               ParseCategories(period_obj.categories))

\* A response body of the period endpoint.
RawData(period, menu_periods, id, name, sort_order, categories) ==
    [period |-> period, menu_periods |-> menu_periods, id |-> id, name |-> name,
     sort_order |-> sort_order, categories |-> categories]

RawSoupCategory ==
    << [id |-> <<"c","1">>, name |-> TxtSoup,
        items |-> << <<>>,
                     << [name |-> TxtHummus, item |-> None, description |-> TxtDip] >>,
                     << [name |-> <<>>, item |-> TxtMustard, description |-> None] >> >>] >>

\* {"period": {...}} with a falsy category, a category and a falsy item.
DataPeriodShape ==
    RawData(<< RawPeriod(<<"p","1">>, <<"B","r","e","a","k","f","a","s","t">>, 1,
                         << <<>>, RawSoupCategory >>) >>,
            <<>>, None, <<>>, 0, <<>>)

\* {"menu": {"periods": [{...}, {...}]}}: the first period is read.
DataMenuShape ==
    RawData(<<>>,
            << << RawPeriod(<<"p","2">>, <<"L","u","n","c","h">>, 2, <<>>) >>,
               << RawPeriod(<<"p","3">>, <<"D","i","n","n","e","r">>, 3, <<>>) >> >>,
            None, <<>>, 0, <<>>)

\* {"id": ..., "categories": [...]}: the body is the period.
DataFlatShape ==
    RawData(<<>>, <<>>, <<"p","3">>, <<"D","i","n","n","e","r">>, 3, << RawSoupCategory >>)

DataPool == { DataPeriodShape, DataMenuShape, DataFlatShape }

\* What a fetch task ends with: the body fetch_period returns, the ApiError
\* it raises, or another exception (resp.json() on a malformed body).
TaskResults ==
    { [kind |-> "data", data |-> d] : d \in DataPool }
    \cup { [kind |-> k, data |-> DataMenuShape] : k \in { "ApiError", "Exception" } }

\* The ids resolve_period_ids can return: one per key of PERIOD_KEYS; two
\* keys can resolve to one period.
ResolvedIds ==
    { [k \in Range(PERIOD_KEYS) |-> IF k = KeyBreakfast THEN <<"p","1">> ELSE pid[k]] :
          pid \in { [k \in Range(PERIOD_KEYS) |-> <<"p","2">>],
                    [k \in Range(PERIOD_KEYS) |-> IF k = KeyLunch THEN <<"p","2">> ELSE <<"p","3">>] } }

InitFetch ==
    /\ pc = "resolve_period_ids"
    /\ exc = "none"
    /\ period_ids = <<>>
    /\ futures = <<>>
    /\ parsed_periods = <<>>
    /\ ordered_periods = <<>>
    /\ periods = <<>>
    /\ out = <<>>
    /\ status = "idle"
    /\ arg = <<>>
    /\ ret = <<>>
    /\ called = "none"

\* period_ids = dine_api.resolve_period_ids(date), which returns an id for
\* every key, raises RuntimeError or lets an exception of fetch_menu through;
\* then the test of an empty mapping.
ResolvePeriodIds ==
    /\ pc = "resolve_period_ids"
    /\ \/ /\ pc' = "raised"
          /\ exc' \in { "RuntimeError", "Exception" }
          /\ UNCHANGED period_ids
       \/ \E ids \in ResolvedIds :
             /\ period_ids' = ids
             /\ IF DOMAIN ids = {}
                THEN pc' = "raised" /\ exc' = "RuntimeError"
                ELSE pc' = "submit" /\ UNCHANGED exc
    /\ UNCHANGED <<futures, parsed_periods, ordered_periods>>
    /\ UNCHANGED <<periods, out, status, arg, ret, called>>

\* futures = {executor.submit(_fetch, key, pid): key ...}: one task per key,
\* each on a worker of its own (max_workers = len(period_ids)).
SubmitAll ==
    /\ pc = "submit"
    /\ futures' = [key \in DOMAIN period_ids |-> [state |-> "running", result |-> <<>>]]
    /\ pc' = "as_completed"
    /\ UNCHANGED <<exc, period_ids, parsed_periods, ordered_periods>>
    /\ UNCHANGED <<periods, out, status, arg, ret, called>>

\* A worker thread: _fetch(key, period_id) ends, with the body fetch_period
\* returned or with the exception it raised.
Fetch(key) ==
    /\ futures[key].state = "running"
    /\ \E r \in TaskResults :
          futures' = [futures EXCEPT ![key] = [state |-> "finished", result |-> <<r>>]]
    /\ UNCHANGED <<pc, exc, period_ids, parsed_periods, ordered_periods>>
    /\ UNCHANGED <<periods, out, status, arg, ret, called>>

\* One turn of `for future in as_completed(futures)`: a finished future not
\* yet yielded is taken; future.result() returns the body, which is parsed
\* and stored under the future's key, or raises: ApiError becomes
\* RuntimeError, any other exception leaves the loop as it is.
AsCompleted(key) ==
    /\ pc = "as_completed"
    /\ futures[key].state = "finished"
    /\ futures' = [futures EXCEPT ![key].state = "yielded"]
    /\ LET r == futures[key].result[1]
       IN  CASE r.kind = "data" ->
                  /\ parsed_periods' = DictSet(parsed_periods, key, parse_period(r.data))
                  /\ UNCHANGED <<pc, exc>>
             [] r.kind = "ApiError" ->
                  /\ pc' = "unwinding"
                  /\ exc' = "RuntimeError"
                  /\ UNCHANGED parsed_periods
             [] OTHER ->
                  /\ pc' = "unwinding"
                  /\ exc' = r.kind
                  /\ UNCHANGED parsed_periods
    /\ UNCHANGED <<period_ids, ordered_periods>>
    /\ UNCHANGED <<periods, out, status, arg, ret, called>>

\* Mutant of OrderLoop: the mapping is left in the order the tasks completed.
OrderLoopAsCompleted(keys, parsed, ordered) == parsed

\* for key in PERIOD_KEYS: if key in parsed_periods:
\*     ordered_periods[key] = parsed_periods[key]
RECURSIVE OrderLoop(_, _, _)
OrderLoop(keys, parsed, ordered) ==
    IF keys = <<>> THEN ordered
    ELSE IF \E i \in DOMAIN parsed : parsed[i].key = Head(keys)
         THEN LET i == CHOOSE i \in DOMAIN parsed : parsed[i].key = Head(keys)
              IN  OrderLoop(Tail(keys), parsed, DictSet(ordered, Head(keys), parsed[i].period))
         ELSE OrderLoop(Tail(keys), parsed, ordered)

\* as_completed is exhausted, the executor is left, the mapping is rebuilt in
\* the order of PERIOD_KEYS and returned.
ReturnOrdered ==
    /\ pc = "as_completed"
    /\ \A key \in DOMAIN futures : futures[key].state = "yielded"
    /\ ordered_periods' = OrderLoop(PERIOD_KEYS, parsed_periods, <<>>)
    /\ pc' = "returned"
    /\ UNCHANGED <<exc, period_ids, futures, parsed_periods>>
    /\ UNCHANGED <<periods, out, status, arg, ret, called>>

\* The exception leaves the with block: the executor's shutdown waits for the
\* tasks still running, then the call ends with the exception.
Propagate ==
    /\ pc = "unwinding"
    /\ \A key \in DOMAIN futures : futures[key].state # "running"
    /\ pc' = "raised"
    /\ UNCHANGED <<exc, period_ids, futures, parsed_periods, ordered_periods>>
    /\ UNCHANGED <<periods, out, status, arg, ret, called>>

NextFetch ==
    \/ ResolvePeriodIds
    \/ SubmitAll
    \/ \E key \in DOMAIN futures : Fetch(key)
    \/ \E key \in DOMAIN futures : AsCompleted(key)
    \/ ReturnOrdered
    \/ Propagate

SpecFetch == InitFetch /\ [][NextFetch]_vars

----------------------------------------------------------------------------
(* C20 *)

\* The keys of PERIOD_KEYS a task was submitted for, in the order of
\* PERIOD_KEYS.
FetchedKeys == SelectSeq(PERIOD_KEYS, LAMBDA key : key \in DOMAIN futures)

\* C20: the mapping fetch_daily_menu returns has the fetched keys in the
\* order breakfast, lunch, dinner, in whatever order the tasks completed,
\* and under each key the period parsed from the result of that key's task.
C20_OrderedOwnResults ==
    pc = "returned" =>
        /\ KeysOf(ordered_periods) = FetchedKeys
        /\ \A i \in DOMAIN ordered_periods :
               LET key == ordered_periods[i].key
               IN  /\ (futures[key].result[1]).kind = "data"
                   /\ ordered_periods[i].period = parse_period((futures[key].result[1]).data)

\* A returned call whose tasks completed in the order dinner, lunch,
\* breakfast, each with a body of another shape.
C20_Witness ==
    /\ pc = "returned"
    /\ KeysOf(parsed_periods) = << KeyDinner, KeyLunch, KeyBreakfast >>
    /\ KeysOf(ordered_periods) = PERIOD_KEYS
    /\ (futures[KeyBreakfast].result[1]).data = DataPeriodShape
    /\ (futures[KeyLunch].result[1]).data = DataMenuShape
    /\ (futures[KeyDinner].result[1]).data = DataFlatShape
    /\ ordered_periods[1].period # ordered_periods[2].period
    /\ ordered_periods[2].period # ordered_periods[3].period

----------------------------------------------------------------------------
(* C21 *)

\* The call has ended, by a return or by an exception.
FetchEnded == pc \in { "returned", "raised" }

\* The task of some key failed with ApiError.
SomeTaskApiError ==
    \E key \in DOMAIN futures :
        futures[key].state # "running" /\ (futures[key].result[1]).kind = "ApiError"

\* C21: when a fetch task failed with ApiError, the call ends with
\* RuntimeError and returns no mapping, whichever tasks completed before the
\* failing one.
C21_ApiErrorRaisesRuntimeError ==
    (FetchEnded /\ SomeTaskApiError) =>
        /\ pc = "raised"
        /\ exc = "RuntimeError"
        /\ ordered_periods = <<>>

(***************************************************************************)
(* resolve_period_ids (src/diningbot/fetch_helper.py; the copy in          *)
(* src/diningbot/period_resolver.py is the same code).                     *)
(***************************************************************************)

\* str.isalnum() on one character (ASCII letters and digits).
IsAlnum(c) ==
    \/ c \in DOMAIN ToLower
    \/ \E k \in DOMAIN ToLower : ToLower[k] = c
    \/ c \in { "0", "1", "2", "3", "4", "5", "6", "7", "8", "9" }

\* "".join(ch.lower() for ch in name if ch.isalnum())
_normalize_period_name(name) == Lower(SelectSeq(name, IsAlnum))

\* norm in name_norm, on strings: norm is a substring of name_norm.
Contains(name_norm, n) ==
    \E i \in 0..(Len(name_norm) - Len(n)) : SubSeq(name_norm, i + 1, i + Len(n)) = n

\* The two loops that fill matches: an entry that is no object is skipped,
\* as is one whose id or name is missing or empty; a later entry with the same
\* normalized name replaces the id of an earlier one.  matches is an
\* insertion-ordered dict, its values are in the field period.
RECURSIVE MatchesLoop(_, _)
MatchesLoop(entries, matches) ==
    IF entries = <<>> THEN matches
    ELSE LET item == Head(entries)
         IN  IF item = <<>> \/ item[1].id \in { None, <<>> } \/ item[1].name \in { None, <<>> }
             THEN MatchesLoop(Tail(entries), matches)
             ELSE MatchesLoop(Tail(entries),
                              DictSet(matches, _normalize_period_name(item[1].name), item[1].id))

\* periods.sort(key=lambda x: x.sort_order) of parse_menu: a stable sort.
SortBySortOrder(ps) ==
    LET n == Len(ps)
        order(a) == IF ps[a] = <<>> THEN 0 ELSE ps[a][1].sort_order
        before(a, b) == order(a) < order(b) \/ (order(a) = order(b) /\ a < b)
        perm == CHOOSE f \in [1..n -> 1..n] : \A i, j \in 1..n : i < j => before(f[i], f[j])
    IN  [i \in 1..n |-> ps[perm[i]]]

\* next((pid for name_norm, pid in matches.items() if norm in name_norm), None)
FirstContaining(matches, n) ==
    IF \E i \in DOMAIN matches : Contains(matches[i].key, n)
    THEN LET i == CHOOSE i \in DOMAIN matches :
                      /\ Contains(matches[i].key, n)
                      /\ \A j \in DOMAIN matches : Contains(matches[j].key, n) => i <= j
         IN  matches[i].period
    ELSE None

\* The loop over PERIOD_KEYS: the exact match, else the first substring
\* match, else the key is missing.
RECURSIVE ResolveLoop(_, _, _, _)
ResolveLoop(keys, matches, resolved, missing) ==
    IF keys = <<>> THEN [resolved |-> resolved, missing |-> missing]
    ELSE LET key == Head(keys)
             n == _normalize_period_name(key)
             pid == IF \E i \in DOMAIN matches : matches[i].key = n
                    THEN matches[CHOOSE i \in DOMAIN matches : matches[i].key = n].period
                    ELSE FirstContaining(matches, n)
         IN  IF pid \notin { None, <<>> }
             THEN ResolveLoop(Tail(keys), matches, DictSet(resolved, key, pid), missing)
             ELSE ResolveLoop(Tail(keys), matches, resolved, Append(missing, key))

\* resolve_period_ids on what fetch_menu ended with.  ApiError becomes
\* RuntimeError; another exception of fetch_menu (resp.json() on a body that
\* is no JSON, data.get on a body that is no object) is not caught.
resolve_period_ids(fetched) ==
    IF fetched.kind = "ApiError" THEN [raised |-> "RuntimeError", resolved |-> <<>>]
    ELSE IF fetched.kind # "data" THEN [raised |-> fetched.kind, resolved |-> <<>>]
    ELSE LET menu_data == fetched.data
             raw == MatchesLoop(menu_data.periods, <<>>)
             matches == IF raw # <<>> THEN raw
                        ELSE MatchesLoop(SortBySortOrder(menu_data.menu_periods), <<>>)
             r == ResolveLoop(PERIOD_KEYS, matches, <<>>, <<>>)
         IN  IF r.missing # <<>>
             THEN [raised |-> "RuntimeError", resolved |-> <<>>]
             ELSE [raised |-> "none", resolved |-> r.resolved]

\* The longest list of periods in the body of the menu endpoint.
MaxPeriods == 3

\* Entries of such a list: periods whose names normalize to a key exactly
\* (one in capitals, with an id of its own) or hold one or two keys as
\* substrings, a period without id, and an entry that is no object.
PeriodEntryPool ==
    { << [id |-> <<"p","1">>, name |-> <<"B","r","e","a","k","f","a","s","t">>, sort_order |-> 1] >>,
      << [id |-> <<"p","2">>, name |-> <<"L","u","n","c","h">>, sort_order |-> 2] >>,
      << [id |-> <<"p","3">>, name |-> <<"D","i","n","n","e","r">>, sort_order |-> 3] >>,
      << [id |-> <<"p","4">>, name |-> <<"L","a","t","e"," "," ","L","u","n","c","h","!">>, sort_order |-> 1] >>,
      << [id |-> <<"p","5">>, name |-> <<"L","U","N","C","H">>, sort_order |-> 1] >>,
      << [id |-> <<"p","6">>, name |-> <<"B","r","e","a","k","f","a","s","t"," ","&"," ","D","i","n","n","e","r">>,
          sort_order |-> 2] >>,
      << [id |-> None, name |-> <<"D","i","n","n","e","r">>, sort_order |-> 0] >>,
      <<>> }

InitResolve ==
    /\ \/ \E kind \in { "ApiError", "Exception" } :
             arg = [kind |-> kind, data |-> [periods |-> <<>>, menu_periods |-> <<>>]]
       \/ \E entries \in SeqsUpTo(PeriodEntryPool, MaxPeriods),
             other \in { <<>>, << <<>> >>, << CHOOSE e \in PeriodEntryPool :
                                                  e # <<>> /\ e[1].id = <<"p","2">> >> } :
             \/ arg = [kind |-> "data", data |-> [periods |-> entries, menu_periods |-> other]]
             \/ arg = [kind |-> "data", data |-> [periods |-> other, menu_periods |-> entries]]
    /\ ret = <<>>
    /\ called = "none"
    /\ periods = <<>>
    /\ out = <<>>
    /\ status = "idle"
    /\ NoFetch

CallResolve ==
    /\ called = "none"
    /\ called' = "resolve_period_ids"
    /\ ret' = << resolve_period_ids(arg) >>
    /\ UNCHANGED <<arg, periods, out, status>>
    /\ UNCHANGED fetchVars

NextResolve == CallResolve

SpecResolve == InitResolve /\ [][NextResolve]_vars

----------------------------------------------------------------------------
(* C22 *)

\* The entries resolve_period_ids matches names against: the periods of the
\* body that have an id and a name, else those of the parsed menu.
ValidEntries(entries) ==
    SelectSeq(entries, LAMBDA e : e # <<>> /\ e[1].id \notin { None, <<>> }
                                           /\ e[1].name \notin { None, <<>> })

\* The mapping has a non-empty id for each of the three keys, in their order.
IsFullMapping(resolved) ==
    /\ KeysOf(resolved) = PERIOD_KEYS
    /\ \A i \in DOMAIN resolved : resolved[i].period \notin { None, <<>> }

\* The ids of the used entries whose normalized name is key exactly.
ExactIds(key) ==
    LET raw == ValidEntries(arg.data.periods)
        used == IF raw # <<>> THEN raw ELSE ValidEntries(arg.data.menu_periods)
    IN  { used[i][1].id : i \in { j \in DOMAIN used : _normalize_period_name(used[j][1].name) = key } }

\* C22: resolve_period_ids either returns a mapping with a non-empty id for
\* each of breakfast, lunch and dinner, or raises RuntimeError; in a returned
\* mapping a key with an exact match of the normalized period name has the
\* id of such a match, not that of a substring match.
C22_FullMappingOrRuntimeError ==
    called = "resolve_period_ids" =>
        \/ /\ (ret[1]).raised = "none"
           /\ IsFullMapping((ret[1]).resolved)
           /\ \A i \in DOMAIN (ret[1]).resolved :
                  ExactIds((ret[1]).resolved[i].key) # {} =>
                      (ret[1]).resolved[i].period \in ExactIds((ret[1]).resolved[i].key)
        \/ (ret[1]).raised = "RuntimeError"

====
